---- MODULE Spec2Model ----
(***************************************************************************)
(* State-machine model of the hospital dashboard component                 *)
(* (src/components/Dashboard.tsx): the React state of Dashboard, its three *)
(* state-changing effects (live clock, log simulator, scenario effects),   *)
(* the two interval timers they own, and the operator's click handlers.    *)
(*                                                                         *)
(* Time is counted in units of 1000 ms from an arbitrary origin, so the    *)
(* clock interval (1000 ms) is 1 unit and the feed interval (2000 ms) is 2 *)
(* units; Date.now() is the variable now.                                  *)
(*                                                                         *)
(* Scheduling: JavaScript runs one task at a time.  A click handler's      *)
(* state update is rendered and committed in the handler's own task, and   *)
(* the passive effects of that commit are flushed before any timer         *)
(* callback or further click is served.  The committed render that         *)
(* precedes the flush is a state of the model (the component function has  *)
(* run and its output is in the DOM), in which only FlushEffects is        *)
(* enabled.                                                                *)
(***************************************************************************)
EXTENDS Integers, Sequences, FiniteSets, TLC

VARIABLES
    mounted,          \* the Dashboard component is mounted
    activeTab,        \* useState<TabId>('overview')
    activeScenario,   \* useState<Scenario>('Normal')
    currentTime,      \* useState(new Date())
    logs,             \* useState<Log[]>([])
    alerts,           \* useState<Alert[]>([])
    recommendations,  \* useState<Recommendation[]>([])
    isVoiceActive,    \* useState(false)
    isFeedPaused,     \* useState(false)
    theme,            \* useState('dark')
    now,              \* the wall clock, Date.now()
    timers,           \* the intervals scheduled in the browser
    clockDeps,        \* deps of the last run of the Live Clock effect
    feedDeps,         \* deps of the last run of the Log Simulator effect
    scenarioDeps,     \* deps of the last run of the Scenario Effects effect
    clockCleanup,     \* handle the Live Clock cleanup will clear
    feedCleanup,      \* handle the Log Simulator cleanup will clear
    generated,        \* history: every Log a feed tick has built, in order
    produced,         \* history: per scenario, each output its effect has set
    feedArmedAt,      \* history: time of the latest setInterval of the feed
    clicks,           \* history: number of operator clicks so far
    apiPc,            \* where the api.ts call in progress stands
    apiCall,          \* the api.ts function called and its arguments
    apiResponse,      \* the Response its fetch resolved with
    apiResult,        \* how the promise the function returned has settled
    fetchLog,         \* history: every request handed to fetch, in order
    geo,              \* navigator.geolocation and the lookup in progress
    apiCalls,         \* history: number of api.ts calls so far
    connected,        \* ConnectionState.connected of the realtime channel
    subscribers,      \* the handlers subscribed to the channel
    delivered,        \* per handler, the inbound messages it was given
    outbox,           \* the messages send() has forwarded, in order
    sendResults,      \* history: how each send() ended, in order
    lifecycle         \* history: connections made, what last opened or
                      \* closed the connection, inbound messages so far

dashVars == <<mounted, activeTab, activeScenario, currentTime, logs, alerts,
              recommendations, isVoiceActive, isFeedPaused, theme, now, timers,
              clockDeps, feedDeps, scenarioDeps, clockCleanup, feedCleanup,
              generated, produced, feedArmedAt, clicks>>

apiVars == <<apiPc, apiCall, apiResponse, apiResult, fetchLog, geo, apiCalls>>

channelVars == <<connected, subscribers, delivered, outbox, sendResults,
                 lifecycle>>

vars == <<dashVars, apiVars, channelVars>>

----------------------------------------------------------------------------
(* Bounds of the model *)

MaxTime == 4

MaxClicks == 2

WarmTicks == 50

MaxCalls == 1

MaxWait == 6

MaxSends == 2

MaxInbound == 1

MaxConnections == 2

(* Values the random source is taken to yield for the AQI jitter,
   Math.floor(Math.random() * 10) *)
Jitters == {0, 9}

----------------------------------------------------------------------------
(* Types and tables *)

Scenarios == {"Normal", "Pollution", "Festival", "Outbreak"}

TabIds == {"overview", "resources", "decisions", "advisory", "settings"}

Themes == {"dark", "light"}

agents == <<"Sentinel", "Orchestrator", "Logistics", "Action">>

SCENARIO_CONFIG(s) ==
    CASE s = "Normal" ->
           [aqi |-> 45, risk |-> "Low", weather |-> "Clear Sky",
            beds |-> [free |-> 85, total |-> 200], oxygen |-> 98,
            staff |-> [active |-> 45, idle |-> 12], ppe |-> 1200]
      [] s = "Pollution" ->
           [aqi |-> 412, risk |-> "High", weather |-> "Haze / Smog",
            beds |-> [free |-> 25, total |-> 200], oxygen |-> 34,
            staff |-> [active |-> 58, idle |-> 2], ppe |-> 950]
      [] s = "Festival" ->
           [aqi |-> 180, risk |-> "Medium", weather |-> "Clear Sky",
            beds |-> [free |-> 40, total |-> 200], oxygen |-> 85,
            staff |-> [active |-> 55, idle |-> 5], ppe |-> 1050]
      [] s = "Outbreak" ->
           [aqi |-> 90, risk |-> "Critical", weather |-> "Rainy",
            beds |-> [free |-> 5, total |-> 200], oxygen |-> 60,
            staff |-> [active |-> 68, idle |-> 0], ppe |-> 200]

(* const stats = SCENARIO_CONFIG[activeScenario], recomputed by every render *)
stats == SCENARIO_CONFIG(activeScenario)

FeedPeriod == 2

ClockPeriod == 1

KeepLast == 49

(* A timer handle that names no interval: the cleanup of an effect run that
   returned no cleanup function, or of an effect that has not run *)
NoHandle == 0

----------------------------------------------------------------------------
(* Scenario Effects: the literal tables of the effect's four branches *)

ScenarioRecommendations(s) ==
    IF s = "Pollution" THEN
        << [id |-> 1, agent |-> "Orchestrator", action |-> "Activate Code Grey",
            reason |-> "AQI > 400 linked to 200% Asthma surge.",
            impact |-> "Mobilize 15 Pulmonologists"],
           [id |-> 2, agent |-> "Logistics", action |-> "Auto-Order Oxygen",
            reason |-> "Reserves projected to deplete in 8hrs.",
            impact |-> "+50 Cylinders"] >>
    ELSE IF s = "Festival" THEN
        << [id |-> 1, agent |-> "Orchestrator", action |-> "Clear Trauma Bay",
            reason |-> "High crowd density event nearby.",
            impact |-> "+10 Emergency Beds"] >>
    ELSE IF s = "Outbreak" THEN
        << [id |-> 1, agent |-> "Sentinel", action |-> "Isolation Protocol",
            reason |-> "Viral vector identified in triage.",
            impact |-> "Lockdown Wing C"],
           [id |-> 2, agent |-> "Action", action |-> "Alert CDC/Local Auth",
            reason |-> "Reportable threshold exceeded.",
            impact |-> "Compliance"] >>
    ELSE
        << [id |-> 1, agent |-> "Logistics", action |-> "Staff Rotation",
            reason |-> "Optimize shift handover.",
            impact |-> "Reduce fatigue"] >>

(* The Festival branch pasted from the Pollution branch with its severity
   left as 'critical' *)
ScenarioAlerts_FestivalCritical(s) ==
    IF s = "Pollution" THEN
        << [id |-> 1, title |-> "Severe Smog Alert",
            desc |-> "Prepare for respiratory surge",
            type |-> "critical", timestamp |-> "Now"] >>
    ELSE IF s = "Festival" THEN
        << [id |-> 1, title |-> "Crowd Surge Warning",
            desc |-> "Local density > 5/sqm",
            type |-> "critical", timestamp |-> "Now"] >>
    ELSE IF s = "Outbreak" THEN
        << [id |-> 1, title |-> "Bio-Hazard Detected",
            desc |-> "Isolate Sector 4 immediately",
            type |-> "critical", timestamp |-> "Now"] >>
    ELSE << >>

ScenarioAlerts(s) ==
    IF s = "Pollution" THEN
        << [id |-> 1, title |-> "Severe Smog Alert",
            desc |-> "Prepare for respiratory surge",
            type |-> "critical", timestamp |-> "Now"] >>
    ELSE IF s = "Festival" THEN
        << [id |-> 1, title |-> "Crowd Surge Warning",
            desc |-> "Local density > 5/sqm",
            type |-> "warning", timestamp |-> "Now"] >>
    ELSE IF s = "Outbreak" THEN
        << [id |-> 1, title |-> "Bio-Hazard Detected",
            desc |-> "Isolate Sector 4 immediately",
            type |-> "critical", timestamp |-> "Now"] >>
    ELSE << >>

(* The decisions view lists every member of recommendations under
   "{recommendations.length} Pending Actions"; a Recommendation carries no
   status field, and its Approve and Reject buttons have no handler *)
RecommendationStatus(rec) == "pending"

----------------------------------------------------------------------------
(* The Log Simulator's tick body *)

(* A template literal: its text, and the value interpolated into it *)
Message(text, num, name) == [text |-> text, num |-> num, name |-> name]

(* toLocaleTimeString([], {hour, minute, second: '2-digit'}) of a time t
   counted from a local midnight *)
LocaleTimeString(t) == <<(t \div 3600) % 24, (t \div 60) % 60, t % 60>>

(* msg after the four unconditional assignments, lines 105-108 *)
RoutineMessage(agent, scenario, st, jitter) ==
    IF agent = "Sentinel" THEN
        Message("AQI signal stable at ${}.", st.aqi + jitter, "")
    ELSE IF agent = "Orchestrator" THEN
        Message("Analyzing inflow patterns for ${} protocols.", 0, scenario)
    ELSE IF agent = "Logistics" THEN
        Message("Bed capacity check: ${} beds available.", st.beds.free, "")
    ELSE
        Message("Routine check active. No critical anomalies.", 0, "")

(* msg after the block guarded by activeScenario !== 'Normal' *)
TickMessage(agent, scenario, st, jitter) ==
    IF scenario # "Normal" THEN
        IF agent = "Sentinel" THEN
            Message("CRITICAL: Detected rapid spike in respiratory cases in Ward B.", 0, "")
        ELSE IF agent = "Logistics" THEN
            Message("WARNING: Oxygen pressure dropping in ICU 2.", 0, "")
        ELSE IF agent = "Action" THEN
            Message("Drafting emergency staff reallocation order #9921.", 0, "")
        ELSE
            Message("Re-calibrating surge prediction model. Confidence: 98%.", 0, "")
    ELSE RoutineMessage(agent, scenario, st, jitter)

(* The draw Math.random() > 0.7 taken outside the block guarded by
   activeScenario !== 'Normal' *)
TickImportant_DrawsUnderNormal(agent, scenario, draw) ==
    IF scenario # "Normal" /\ agent \in {"Sentinel", "Logistics", "Action"}
    THEN TRUE ELSE draw

(* The three overrides important = true left out *)
TickImportant_NoOverride(agent, scenario, draw) ==
    IF scenario # "Normal" THEN draw ELSE FALSE

(* important: false, or under a non-Normal scenario the draw
   Math.random() > 0.7 overridden to true for three of the agents *)
TickImportant(agent, scenario, draw) ==
    IF scenario # "Normal" THEN
        IF agent \in {"Sentinel", "Logistics", "Action"} THEN TRUE ELSE draw
    ELSE FALSE

(* The id taken at the resolution of a minute, Math.floor(Date.now() /
   60000): Logs of the same minute share it *)
NewLog_IdPerMinute(scenario, st, agentIndex, jitter, draw, t) ==
    LET agent == agents[agentIndex + 1] IN
    [id |-> t \div 60, agent |-> agent,
     message |-> TickMessage(agent, scenario, st, jitter),
     time |-> LocaleTimeString(t),
     isImportant |-> TickImportant(agent, scenario, draw)]

(* newLog, built from the scenario and stats the interval callback closed
   over, the drawn agent, and the time of the tick *)
NewLog(scenario, st, agentIndex, jitter, draw, t) ==
    LET agent == agents[agentIndex + 1] IN
    [id |-> t,
     agent |-> agent,
     message |-> TickMessage(agent, scenario, st, jitter),
     time |-> LocaleTimeString(t),
     isImportant |-> TickImportant(agent, scenario, draw)]

(* prev.slice(-49): the last 49 elements, or all of them *)
SliceLast(prev, n) ==
    IF Len(prev) <= n THEN prev ELSE SubSeq(prev, Len(prev) - n + 1, Len(prev))

(* A buffer that never evicts: prev => [...prev, newLog] *)
AppendLog_NoSlice(prev, newLog) == Append(prev, newLog)

(* A buffer that keeps its oldest entries: prev => [...prev.slice(0, 49), newLog] *)
AppendLog_KeepOldest(prev, newLog) ==
    Append(IF Len(prev) <= KeepLast THEN prev ELSE SubSeq(prev, 1, KeepLast),
           newLog)

(* prev => [...prev.slice(-49), newLog] *)
AppendLog(prev, newLog) == Append(SliceLast(prev, KeepLast), newLog)

----------------------------------------------------------------------------
(* Interval timers.  A timer is [id, kind, due, scenario]: its handle, the
   effect that set it, the time of its next firing, and, for a feed timer,
   the activeScenario its callback closed over (the callback's stats is the
   stats of the same render, SCENARIO_CONFIG of that scenario). *)

TimerIds(ts) == {t.id : t \in ts}

(* The handle the next setInterval returns *)
FreshHandle(ts) ==
    CHOOSE h \in 1..(Cardinality(ts) + 1) :
        /\ h \notin TimerIds(ts)
        /\ \A g \in 1..(h - 1) : g \in TimerIds(ts)

SetInterval(ts, kind, period, scenario) ==
    ts \cup {[id |-> FreshHandle(ts), kind |-> kind, due |-> now + period,
              scenario |-> scenario]}

ClearInterval(ts, h) == {t \in ts : t.id # h}

(* A fired interval is due again one period later *)
Rearm(ts, t, period) == (ts \ {t}) \cup {[t EXCEPT !.due = t.due + period]}

----------------------------------------------------------------------------
(* Effects and their dependency arrays *)

NoDeps == [ran |-> FALSE, scenario |-> "Normal", paused |-> FALSE]

(* [] *)
ClockDepsNow == [ran |-> TRUE, scenario |-> "Normal", paused |-> FALSE]

(* stats built anew by every render, { ...SCENARIO_CONFIG[activeScenario] }:
   the dep is a different object whenever the component has re-rendered *)
FeedDepsNow_FreshStats ==
    [ran |-> TRUE, scenario |-> activeScenario, paused |-> isFeedPaused,
     stats |-> <<currentTime, activeTab, theme, isVoiceActive, Len(generated)>>]

(* The deps array written as [isFeedPaused]: the interval callback keeps
   the activeScenario and stats of the render that set it *)
FeedDepsNow_PausedOnly == [ran |-> TRUE, scenario |-> "Normal", paused |-> isFeedPaused]

(* [activeScenario, stats, isFeedPaused]: stats is the table's object for
   activeScenario, so it changes exactly when activeScenario does *)
FeedDepsNow == [ran |-> TRUE, scenario |-> activeScenario, paused |-> isFeedPaused]

(* [activeScenario] *)
ScenarioDepsNow == [ran |-> TRUE, scenario |-> activeScenario, paused |-> FALSE]

(* A committed render whose passive effects have not been flushed yet *)
EffectsPending ==
    /\ mounted
    /\ \/ clockDeps # ClockDepsNow
       \/ feedDeps # FeedDepsNow
       \/ scenarioDeps # ScenarioDepsNow

(* Live Clock: setInterval(() => setCurrentTime(new Date()), 1000) *)
LiveClockEffect(ts) == SetInterval(ts, "clock", ClockPeriod, "")

(* return () => clearInterval(timer) *)
LiveClockCleanup(ts, h) == ClearInterval(ts, h)

(* The effect without its early return: the interval is set while paused *)
LogSimulatorEffect_IgnoresPause(ts, paused, scenario) ==
    SetInterval(ts, "feed", FeedPeriod, scenario)

(* Log Simulator: if (isFeedPaused) return; setInterval(..., 2000) *)
LogSimulatorEffect(ts, paused, scenario) ==
    IF paused THEN ts ELSE SetInterval(ts, "feed", FeedPeriod, scenario)

(* The effect without a cleanup: the interval is never cleared *)
LogSimulatorCleanup_Missing(ts, h) == ts

(* return () => clearInterval(interval) *)
LogSimulatorCleanup(ts, h) == ClearInterval(ts, h)

(* setRecommendations(prev => [...prev, ...]): merged, not replaced *)
ScenarioEffectRecommendations_Merge(prev, s) == prev \o ScenarioRecommendations(s)

(* setAlerts(prev => [...prev, ...]): merged, not replaced *)
ScenarioEffectAlerts_Merge(prev, s) == prev \o ScenarioAlerts(s)

(* Scenario Effects: setRecommendations(...) of the branch taken *)
ScenarioEffectRecommendations(prev, s) == ScenarioRecommendations(s)

(* The effect with its setAlerts calls left out of the branches: the new
   recommendations are rendered beside the alerts of the scenario before *)
ScenarioEffectAlerts_Kept(prev, s) == prev

(* Scenario Effects: setAlerts(...) of the branch taken *)
ScenarioEffectAlerts(prev, s) == ScenarioAlerts(s)

(* The flush of the passive effects of a commit: the cleanups of the
   effects whose deps changed, then their bodies in source order, then the
   render of the state they set. *)
FlushEffects ==
    /\ EffectsPending
    /\ LET clockRuns == clockDeps # ClockDepsNow
           feedRuns == feedDeps # FeedDepsNow
           scenarioRuns == scenarioDeps # ScenarioDepsNow
           t0 == IF feedRuns THEN LogSimulatorCleanup(timers, feedCleanup)
                 ELSE timers
           t1 == IF clockRuns THEN LiveClockEffect(t0) ELSE t0
           t2 == IF feedRuns THEN LogSimulatorEffect(t1, isFeedPaused, activeScenario)
                 ELSE t1
           newAlerts == ScenarioEffectAlerts(alerts, activeScenario)
           newRecs == ScenarioEffectRecommendations(recommendations, activeScenario)
       IN  /\ timers' = t2
           /\ clockCleanup' = IF clockRuns THEN FreshHandle(t0) ELSE clockCleanup
           /\ feedCleanup' = IF ~feedRuns THEN feedCleanup
                             ELSE IF t2 = t1 THEN NoHandle
                             ELSE FreshHandle(t1)
           /\ feedArmedAt' = IF feedRuns /\ t2 # t1 THEN now ELSE feedArmedAt
           /\ alerts' = IF scenarioRuns THEN newAlerts ELSE alerts
           /\ recommendations' = IF scenarioRuns THEN newRecs ELSE recommendations
           /\ produced' = IF scenarioRuns
                          THEN [produced EXCEPT ![activeScenario] =
                                  Append(@, [alerts |-> newAlerts,
                                             recommendations |-> newRecs])]
                          ELSE produced
    /\ clockDeps' = ClockDepsNow
    /\ feedDeps' = FeedDepsNow
    /\ scenarioDeps' = ScenarioDepsNow
    /\ UNCHANGED <<apiVars, channelVars>>
    /\ UNCHANGED <<mounted, activeTab, activeScenario, currentTime, logs,
                   isVoiceActive, isFeedPaused, theme, now, generated, clicks>>

----------------------------------------------------------------------------
(* Operator clicks.  A click is served when the component is mounted and
   the effects of the previous commit are flushed; the control clicked is
   one the active tab renders. *)

CanClick == mounted /\ ~EffectsPending /\ clicks < MaxClicks

(* Scenario buttons that work only out of or into Normal *)
SelectScenario_ViaNormal(s) ==
    /\ CanClick
    /\ activeTab = "overview"
    /\ activeScenario = "Normal" \/ s = "Normal"
    /\ activeScenario' = s
    /\ clicks' = clicks + 1
    /\ UNCHANGED <<apiVars, channelVars>>
    /\ UNCHANGED <<mounted, activeTab, currentTime, logs, alerts,
                   recommendations, isVoiceActive, isFeedPaused, theme, now,
                   timers, clockDeps, feedDeps, scenarioDeps, clockCleanup,
                   feedCleanup, generated, produced, feedArmedAt>>

(* onClick={() => setActiveScenario(s)}, a button of the overview *)
SelectScenario(s) ==
    /\ CanClick
    /\ activeTab = "overview"
    /\ activeScenario' = s
    /\ clicks' = clicks + 1
    /\ UNCHANGED <<apiVars, channelVars>>
    /\ UNCHANGED <<mounted, activeTab, currentTime, logs, alerts,
                   recommendations, isVoiceActive, isFeedPaused, theme, now,
                   timers, clockDeps, feedDeps, scenarioDeps, clockCleanup,
                   feedCleanup, generated, produced, feedArmedAt>>

(* A Pause button that also empties the feed *)
TogglePause_ClearsLogs ==
    /\ CanClick
    /\ activeTab = "overview"
    /\ isFeedPaused' = ~isFeedPaused
    /\ logs' = IF isFeedPaused THEN logs ELSE << >>
    /\ clicks' = clicks + 1
    /\ UNCHANGED <<apiVars, channelVars>>
    /\ UNCHANGED <<mounted, activeTab, activeScenario, currentTime,
                   alerts, recommendations, isVoiceActive, theme, now, timers,
                   clockDeps, feedDeps, scenarioDeps, clockCleanup,
                   feedCleanup, generated, produced, feedArmedAt>>

(* onClick={() => setIsFeedPaused(!isFeedPaused)}, a button of the overview *)
TogglePause ==
    /\ CanClick
    /\ activeTab = "overview"
    /\ isFeedPaused' = ~isFeedPaused
    /\ clicks' = clicks + 1
    /\ UNCHANGED <<apiVars, channelVars>>
    /\ UNCHANGED <<mounted, activeTab, activeScenario, currentTime, logs,
                   alerts, recommendations, isVoiceActive, theme, now, timers,
                   clockDeps, feedDeps, scenarioDeps, clockCleanup,
                   feedCleanup, generated, produced, feedArmedAt>>

(* SidebarItem onClick={setActiveTab} *)
SetActiveTab(id) ==
    /\ CanClick
    /\ activeTab' = id
    /\ clicks' = clicks + 1
    /\ UNCHANGED <<apiVars, channelVars>>
    /\ UNCHANGED <<mounted, activeScenario, currentTime, logs, alerts,
                   recommendations, isVoiceActive, isFeedPaused, theme, now,
                   timers, clockDeps, feedDeps, scenarioDeps, clockCleanup,
                   feedCleanup, generated, produced, feedArmedAt>>

(* onClick={() => setTheme('dark' | 'light')}, buttons of the settings *)
SetTheme(th) ==
    /\ CanClick
    /\ activeTab = "settings"
    /\ theme' = th
    /\ clicks' = clicks + 1
    /\ UNCHANGED <<apiVars, channelVars>>
    /\ UNCHANGED <<mounted, activeTab, activeScenario, currentTime, logs,
                   alerts, recommendations, isVoiceActive, isFeedPaused, now,
                   timers, clockDeps, feedDeps, scenarioDeps, clockCleanup,
                   feedCleanup, generated, produced, feedArmedAt>>

(* onClick={() => setIsVoiceActive(!isVoiceActive)}, a button of the settings *)
ToggleVoice ==
    /\ CanClick
    /\ activeTab = "settings"
    /\ isVoiceActive' = ~isVoiceActive
    /\ clicks' = clicks + 1
    /\ UNCHANGED <<apiVars, channelVars>>
    /\ UNCHANGED <<mounted, activeTab, activeScenario, currentTime, logs,
                   alerts, recommendations, isFeedPaused, theme, now, timers,
                   clockDeps, feedDeps, scenarioDeps, clockCleanup,
                   feedCleanup, generated, produced, feedArmedAt>>

(* onClick={onBack}: the parent takes the Dashboard down, and React runs the
   cleanup of every effect *)
Unmount ==
    /\ CanClick
    /\ mounted' = FALSE
    /\ timers' = LiveClockCleanup(LogSimulatorCleanup(timers, feedCleanup),
                                  clockCleanup)
    /\ clockCleanup' = NoHandle
    /\ feedCleanup' = NoHandle
    /\ clicks' = clicks + 1
    /\ UNCHANGED <<apiVars, channelVars>>
    /\ UNCHANGED <<activeTab, activeScenario, currentTime, logs, alerts,
                   recommendations, isVoiceActive, isFeedPaused, theme, now,
                   clockDeps, feedDeps, scenarioDeps, generated, produced,
                   feedArmedAt>>

----------------------------------------------------------------------------
(* Timer callbacks and the passage of time.  A callback runs as a task of
   its own, once its interval is due and no commit is waiting for its
   effects; a state update of an unmounted component is dropped. *)

(* The callback of the Log Simulator's interval, with its three draws of
   Math.random(): the agent index, the AQI jitter, and the importance *)
FeedTick(agentIndex, jitter, draw) ==
    /\ ~EffectsPending
    /\ \E t \in timers :
         /\ t.kind = "feed"
         /\ t.due <= now
         /\ LET newLog == NewLog(t.scenario, SCENARIO_CONFIG(t.scenario),
                                 agentIndex, jitter, draw, now)
            IN  /\ logs' = IF mounted THEN AppendLog(logs, newLog) ELSE logs
                /\ generated' = Append(generated, newLog)
         /\ timers' = Rearm(timers, t, FeedPeriod)
    /\ UNCHANGED <<apiVars, channelVars>>
    /\ UNCHANGED <<mounted, activeTab, activeScenario, currentTime, alerts,
                   recommendations, isVoiceActive, isFeedPaused, theme, now,
                   clockDeps, feedDeps, scenarioDeps, clockCleanup,
                   feedCleanup, produced, feedArmedAt, clicks>>

(* The callback of the Live Clock's interval: setCurrentTime(new Date()) *)
ClockTick ==
    /\ ~EffectsPending
    /\ \E t \in timers :
         /\ t.kind = "clock"
         /\ t.due <= now
         /\ timers' = Rearm(timers, t, ClockPeriod)
    /\ currentTime' = IF mounted THEN now ELSE currentTime
    /\ UNCHANGED <<apiVars, channelVars>>
    /\ UNCHANGED <<mounted, activeTab, activeScenario, logs, alerts,
                   recommendations, isVoiceActive, isFeedPaused, theme, now,
                   clockDeps, feedDeps, scenarioDeps, clockCleanup,
                   feedCleanup, generated, produced, feedArmedAt, clicks>>

(* One unit of time passes, once every callback that is due has run *)
Advance(limit) ==
    /\ ~EffectsPending
    /\ now < limit
    /\ \A t \in timers : t.due > now
    /\ now' = now + 1
    /\ UNCHANGED <<apiVars, channelVars>>
    /\ UNCHANGED <<mounted, activeTab, activeScenario, currentTime, logs,
                   alerts, recommendations, isVoiceActive, isFeedPaused,
                   theme, timers, clockDeps, feedDeps, scenarioDeps,
                   clockCleanup, feedCleanup, generated, produced,
                   feedArmedAt, clicks>>

----------------------------------------------------------------------------
(* src/frontend/src/lib/api.ts: ten async functions, each one fetch and one
   response.json().  The module keeps no state of its own and Dashboard.tsx
   does not import it; a call is followed here from its invocation to the
   settling of the promise it returned.  Calls do not interact, so one is
   followed at a time.  The server and the browser's location service are
   outside the repository: every response and every answer they can give is
   an input. *)

ApiOps ==
    {"fetchBeds", "fetchStaff", "fetchInventory", "fetchLatestPrediction",
     "fetchRecommendations", "approveRecommendation", "rejectRecommendation",
     "getCostSavings", "triggerCrisisSimulation", "fetchCurrentAQI"}

(* A call: the function and its arguments.  filter is the optional string
   argument (department, shift, status) or crisisType; '' stands for a left
   out argument too, the code testing it for truthiness only.  recId is
   written as the number the template literal prints. *)
Invocation(op, filter, recId, reason, criticalOnly) ==
    [op |-> op, filter |-> filter, recId |-> recId, reason |-> reason,
     criticalOnly |-> criticalOnly]

Plain(op) == Invocation(op, "", 0, "", FALSE)

RecIds == {1, 7}

Reasons == {"", "Duplicate order"}

Invocations ==
    {Invocation("fetchBeds", d, 0, "", FALSE) : d \in {"", "ICU"}}
    \cup {Invocation("fetchStaff", sh, 0, "", FALSE) : sh \in {"", "night"}}
    \cup {Invocation("fetchInventory", "", 0, "", c) : c \in BOOLEAN}
    \cup {Plain("fetchLatestPrediction")}
    \cup {Invocation("fetchRecommendations", st, 0, "", FALSE) :
             st \in {"", "pending"}}
    \cup {Invocation("approveRecommendation", "", r, "", FALSE) : r \in RecIds}
    \cup {Invocation("rejectRecommendation", "", r, why, FALSE) :
             r \in RecIds, why \in Reasons}
    \cup {Plain("getCostSavings")}
    \cup {Invocation("triggerCrisisSimulation", "Outbreak", 0, "", FALSE)}
    \cup {Plain("fetchCurrentAQI")}

NoInvocation == Plain("")

(* What fetch is handed: method, path below API_BASE_URL, the id inside the
   path, the query string and the JSON body *)
Param(name, str, num) == [name |-> name, str |-> str, num |-> num]

Body(present, name, value) == [present |-> present, name |-> name, value |-> value]

NoBody == Body(FALSE, "", "")

Request(method, path, recId, query, body) ==
    [method |-> method, path |-> path, recId |-> recId, query |-> query,
     body |-> body]

Get(path, query) == Request("GET", path, 0, query, NoBody)

fetchBeds(department) ==
    IF department # ""
    THEN Get("/api/v1/beds", << Param("department", department, 0) >>)
    ELSE Get("/api/v1/beds", << >>)

fetchStaff(shift) ==
    IF shift # ""
    THEN Get("/api/v1/staff", << Param("shift", shift, 0) >>)
    ELSE Get("/api/v1/staff", << >>)

fetchInventory(criticalOnly) ==
    Get("/api/v1/inventory",
        << Param("critical_only", IF criticalOnly THEN "true" ELSE "false", 0) >>)

fetchLatestPrediction == Get("/api/v1/predictions/latest", << >>)

fetchRecommendations(status) ==
    IF status # ""
    THEN Get("/api/v1/recommendations", << Param("status", status, 0) >>)
    ELSE Get("/api/v1/recommendations", << >>)

approveRecommendation(recId) ==
    Request("POST", "/api/v1/recommendations/${recId}/approve", recId, << >>,
            NoBody)

rejectRecommendation(recId, reason) ==
    Request("POST", "/api/v1/recommendations/${recId}/reject", recId, << >>,
            Body(TRUE, "reason", reason))

getCostSavings == Get("/api/v1/analytics/cost-savings", << >>)

triggerCrisisSimulation(crisisType) ==
    Request("POST", "/api/v1/simulation/trigger-crisis", 0, << >>,
            Body(TRUE, "crisis_type", crisisType))

(* What getCurrentLocation resolves with: { lat, lon } or null *)
Location(found, lat, lon) == [found |-> found, lat |-> lat, lon |-> lon]

NoLocation == Location(FALSE, 0, 0)

Positions == {Location(TRUE, 19, 72)}

(* The request fetchCurrentAQI makes once the location is settled *)
fetchCurrentAQI(location) ==
    IF location.found
    THEN Get("/api/v1/environment/aqi",
             << Param("lat", "", location.lat), Param("lon", "", location.lon) >>)
    ELSE Get("/api/v1/environment/aqi", << >>)

(* The one request of a call of any function but fetchCurrentAQI *)
RequestOf(call) ==
    CASE call.op = "fetchBeds" -> fetchBeds(call.filter)
      [] call.op = "fetchStaff" -> fetchStaff(call.filter)
      [] call.op = "fetchInventory" -> fetchInventory(call.criticalOnly)
      [] call.op = "fetchLatestPrediction" -> fetchLatestPrediction
      [] call.op = "fetchRecommendations" -> fetchRecommendations(call.filter)
      [] call.op = "approveRecommendation" -> approveRecommendation(call.recId)
      [] call.op = "rejectRecommendation" ->
             rejectRecommendation(call.recId, call.reason)
      [] call.op = "getCostSavings" -> getCostSavings
      [] call.op = "triggerCrisisSimulation" ->
             triggerCrisisSimulation(call.filter)

(* A Response: its status, response.ok, and what its body holds: the
   resource's JSON, a JSON error document, or text that is not JSON *)
Response(status, body) ==
    [status |-> status, ok |-> (status >= 200 /\ status <= 299), body |-> body]

NoResponse == [status |-> 0, ok |-> FALSE, body |-> ""]

Statuses == {200, 404, 422, 500}

Responses ==
    {Response(200, b) : b \in {"payload", "notJson"}}
    \cup {Response(st, b) : st \in Statuses \ {200}, b \in {"errorDetail", "notJson"}}

(* The promise an async function returned *)
Settled(state, value, error) == [state |-> state, value |-> value, error |-> error]

Pending == Settled("pending", "", "")

(* navigator.geolocation: whether the browser has it, the page's permission
   to use it, the time since getCurrentPosition was called and the time the
   acquisition of a position has taken *)
Permissions == {"prompt", "granted", "denied"}

GeoTimeout == 5

Geolocation(available, permission, elapsed, acquiring) ==
    [available |-> available, permission |-> permission, elapsed |-> elapsed,
     acquiring |-> acquiring]

ApiInit ==
    /\ apiPc = "idle"
    /\ apiCall = NoInvocation
    /\ apiResponse = NoResponse
    /\ apiResult = Pending
    /\ fetchLog = << >>
    /\ geo = Geolocation(FALSE, "prompt", 0, 0)
    /\ apiCalls = 0

----------------------------------------------------------------------------
(* The realtime channel, as section 4.2 of the specification describes it:
   one logical connection, subscribe / unsubscribe, send, connect,
   disconnect.  No file under src/ holds it. *)

Handlers == {"h1", "h2"}

Frames == {"m1", "m2"}

ChannelInit ==
    /\ connected = FALSE
    /\ subscribers = {}
    /\ delivered = [h \in Handlers |-> << >>]
    /\ outbox = << >>
    /\ sendResults = << >>
    /\ lifecycle = [connections |-> 0, last |-> "none", inbound |-> 0]

----------------------------------------------------------------------------
(* The specification: the component from its first render *)

Init ==
    /\ mounted = TRUE
    /\ activeTab = "overview"
    /\ activeScenario = "Normal"
    /\ currentTime = 0
    /\ logs = << >>
    /\ alerts = << >>
    /\ recommendations = << >>
    /\ isVoiceActive = FALSE
    /\ isFeedPaused = FALSE
    /\ theme = "dark"
    /\ now = 0
    /\ timers = {}
    /\ clockDeps = NoDeps
    /\ feedDeps = NoDeps
    /\ scenarioDeps = NoDeps
    /\ clockCleanup = NoHandle
    /\ feedCleanup = NoHandle
    /\ generated = << >>
    /\ produced = [s \in Scenarios |-> << >>]
    /\ feedArmedAt = 0
    /\ clicks = 0
    /\ ApiInit
    /\ ChannelInit

Step(limit) ==
    \/ FlushEffects
    \/ \E s \in Scenarios : SelectScenario(s)
    \/ TogglePause
    \/ \E id \in TabIds : SetActiveTab(id)
    \/ \E th \in Themes : SetTheme(th)
    \/ ToggleVoice
    \/ Unmount
    \/ \E i \in 0..3, j \in Jitters, d \in BOOLEAN : FeedTick(i, j, d)
    \/ ClockTick
    \/ Advance(limit)

Next == Step(MaxTime)

Spec == Init /\ [][Next]_vars

----------------------------------------------------------------------------
(* The same component, taken up after WarmTicks undisturbed feed ticks: the
   state Spec reaches at time FeedPeriod * WarmTicks when the operator has
   clicked nothing and the draws of tick k were agent k mod 4, jitter 0 and
   an importance draw of false. *)

WarmTime == FeedPeriod * WarmTicks

(* The Log built by the k-th of those ticks *)
WarmLog(k) ==
    NewLog("Normal", SCENARIO_CONFIG("Normal"), k % 4, 0, FALSE, FeedPeriod * k)

WarmGenerated(n) == [k \in 1..n |-> WarmLog(k)]

(* The buffer prev after the ticks lo..hi have each appended their Log to
   it: the ticks of the first half, then on their result those of the
   second *)
RECURSIVE WarmFold(_, _, _)
WarmFold(prev, lo, hi) ==
    IF lo > hi THEN prev
    ELSE IF lo = hi THEN AppendLog(prev, WarmLog(lo))
    ELSE LET mid == (lo + hi) \div 2
         IN  CHOOSE buffer \in {WarmFold(half, mid + 1, hi) :
                                   half \in {WarmFold(prev, lo, mid)}} : TRUE

(* logs after the first k ticks *)
WarmLogs(k) == WarmFold(<< >>, 1, k)

WarmInit ==
    /\ mounted = TRUE
    /\ activeTab = "overview"
    /\ activeScenario = "Normal"
    /\ currentTime = WarmTime
    /\ logs = WarmLogs(WarmTicks)
    /\ alerts = ScenarioAlerts("Normal")
    /\ recommendations = ScenarioRecommendations("Normal")
    /\ isVoiceActive = FALSE
    /\ isFeedPaused = FALSE
    /\ theme = "dark"
    /\ now = WarmTime
    /\ timers = {[id |-> 1, kind |-> "clock", due |-> WarmTime + ClockPeriod,
                  scenario |-> ""],
                 [id |-> 2, kind |-> "feed", due |-> WarmTime + FeedPeriod,
                  scenario |-> "Normal"]}
    /\ clockDeps = ClockDepsNow
    /\ feedDeps = FeedDepsNow
    /\ scenarioDeps = ScenarioDepsNow
    /\ clockCleanup = 1
    /\ feedCleanup = 2
    /\ generated = WarmGenerated(WarmTicks)
    /\ produced = [s \in Scenarios |->
                     IF s = "Normal"
                     THEN << [alerts |-> ScenarioAlerts("Normal"),
                              recommendations |-> ScenarioRecommendations("Normal")] >>
                     ELSE << >>]
    /\ feedArmedAt = 0
    /\ clicks = 0
    /\ ApiInit
    /\ ChannelInit

WarmNext == Step(WarmTime + MaxTime)

WarmSpec == WarmInit /\ [][WarmNext]_vars

----------------------------------------------------------------------------
(* api.ts: the steps of a call *)

(* fetch(url, init) is called: the request leaves, the promise is pending *)
Fetch(request) ==
    /\ fetchLog' = Append(fetchLog, request)
    /\ apiPc' = "fetching"

(* One of the functions is called.  Every function but fetchCurrentAQI
   builds its url and calls fetch at once.  fetchCurrentAQI awaits
   getCurrentLocation first, which resolves null at once when the browser
   has no navigator.geolocation and calls getCurrentPosition otherwise;
   available and permission are the browser's state at the call. *)
ApiCall(call, available, permission) ==
    /\ apiPc \in {"idle", "settled"}
    /\ apiCalls < MaxCalls
    /\ apiCalls' = apiCalls + 1
    /\ apiCall' = call
    /\ apiResponse' = NoResponse
    /\ apiResult' = Pending
    /\ IF call.op = "fetchCurrentAQI"
       THEN /\ geo' = Geolocation(available, permission, 0, 0)
            /\ IF available
               THEN /\ apiPc' = "locating"
                    /\ UNCHANGED fetchLog
               ELSE Fetch(fetchCurrentAQI(NoLocation))
       ELSE /\ ~available /\ permission = "prompt"
            /\ UNCHANGED geo
            /\ Fetch(RequestOf(call))
    /\ UNCHANGED <<dashVars, channelVars>>

(* The user answers the browser's permission prompt *)
AnswerPrompt(grant) ==
    /\ apiPc = "locating"
    /\ geo.permission = "prompt"
    /\ geo' = [geo EXCEPT !.permission = IF grant THEN "granted" ELSE "denied"]
    /\ UNCHANGED <<apiPc, apiCall, apiResponse, apiResult, fetchLog, apiCalls>>
    /\ UNCHANGED <<dashVars, channelVars>>

(* 1000 ms pass during the lookup.  The period the timeout option bounds is
   the acquisition of the position: it does not run while the permission
   prompt is unanswered, and ends in the error callback at GeoTimeout. *)
GeoWait ==
    /\ apiPc = "locating"
    /\ geo.elapsed < MaxWait
    /\ geo.permission # "denied"
    /\ geo.permission = "granted" => geo.acquiring < GeoTimeout
    /\ geo' = [geo EXCEPT !.elapsed = @ + 1,
                          !.acquiring = IF geo.permission = "granted"
                                        THEN @ + 1 ELSE @]
    /\ UNCHANGED <<apiPc, apiCall, apiResponse, apiResult, fetchLog, apiCalls>>
    /\ UNCHANGED <<dashVars, channelVars>>

(* The success callback: resolve({ lat, lon }); fetchCurrentAQI goes on to
   its fetch with the coordinates in the url *)
PositionSuccess(position) ==
    /\ apiPc = "locating"
    /\ geo.permission = "granted"
    /\ Fetch(fetchCurrentAQI(position))
    /\ UNCHANGED <<apiCall, apiResponse, apiResult, geo, apiCalls>>
    /\ UNCHANGED <<dashVars, channelVars>>

(* The error callback: console.warn and resolve(null); fetchCurrentAQI goes
   on to its fetch without coordinates *)
PositionError(code) ==
    /\ apiPc = "locating"
    /\ CASE code = "PERMISSION_DENIED" -> geo.permission = "denied"
         [] code = "POSITION_UNAVAILABLE" -> geo.permission = "granted"
         [] code = "TIMEOUT" ->
                geo.permission = "granted" /\ geo.acquiring = GeoTimeout
    /\ Fetch(fetchCurrentAQI(NoLocation))
    /\ UNCHANGED <<apiCall, apiResponse, apiResult, geo, apiCalls>>
    /\ UNCHANGED <<dashVars, channelVars>>

PositionErrors == {"PERMISSION_DENIED", "POSITION_UNAVAILABLE", "TIMEOUT"}

(* The call wrapped in a retry: the first transport failure of a call is
   caught and the same request sent again *)
FetchRejects_RetriesOnce ==
    /\ apiPc = "fetching"
    /\ IF Len(fetchLog) <= apiCalls
       THEN /\ fetchLog' = Append(fetchLog, fetchLog[Len(fetchLog)])
            /\ UNCHANGED <<apiPc, apiResult>>
       ELSE /\ apiPc' = "settled"
            /\ apiResult' = Settled("rejected", "", "TypeError")
            /\ UNCHANGED fetchLog
    /\ UNCHANGED <<apiCall, apiResponse, geo, apiCalls>>
    /\ UNCHANGED <<dashVars, channelVars>>

(* The transport fails: fetch rejects with a TypeError, await throws, and
   the function's promise rejects with it *)
FetchRejects ==
    /\ apiPc = "fetching"
    /\ apiPc' = "settled"
    /\ apiResult' = Settled("rejected", "", "TypeError")
    /\ UNCHANGED <<apiCall, apiResponse, fetchLog, geo, apiCalls>>
    /\ UNCHANGED <<dashVars, channelVars>>

(* The server answers: fetch resolves with the Response, whatever its
   status *)
FetchResolves(response) ==
    /\ apiPc = "fetching"
    /\ apiPc' = "parsing"
    /\ apiResponse' = response
    /\ UNCHANGED <<apiCall, apiResult, fetchLog, geo, apiCalls>>
    /\ UNCHANGED <<dashVars, channelVars>>

(* return response.json(): the parsed body, or the parser's SyntaxError;
   response.ok and response.status are not read *)
ResponseJson ==
    /\ apiPc = "parsing"
    /\ apiPc' = "settled"
    /\ apiResult' = IF apiResponse.body = "notJson"
                    THEN Settled("rejected", "", "SyntaxError")
                    ELSE Settled("fulfilled", apiResponse.body, "")
    /\ UNCHANGED <<apiCall, apiResponse, fetchLog, geo, apiCalls>>
    /\ UNCHANGED <<dashVars, channelVars>>

(* The steps of the program, the browser and the server that are bound to
   happen once they can *)
ApiProgress ==
    \/ GeoWait
    \/ \E position \in Positions : PositionSuccess(position)
    \/ \E code \in PositionErrors : PositionError(code)
    \/ FetchRejects
    \/ \E response \in Responses : FetchResolves(response)
    \/ ResponseJson

(* The client beside the mounted dashboard *)
ApiNext ==
    \/ FlushEffects
    \/ \E call \in Invocations, available \in BOOLEAN, permission \in Permissions :
          ApiCall(call, available, permission)
    \/ \E grant \in BOOLEAN : AnswerPrompt(grant)
    \/ GeoWait
    \/ \E position \in Positions : PositionSuccess(position)
    \/ \E code \in PositionErrors : PositionError(code)
    \/ FetchRejects
    \/ \E response \in Responses : FetchResolves(response)
    \/ ResponseJson

ApiSpec == Init /\ [][ApiNext]_vars

(* The same, where whatever the browser, the server and the clock can do
   they eventually do; the user is not bound to answer a prompt *)
ApiFairSpec == Init /\ [][ApiNext]_vars /\ WF_vars(ApiProgress)


----------------------------------------------------------------------------
(* Properties *)

(* C1: in every reachable state the log buffer logs holds at most 50
   entries. *)
C1_LogsAtMost50 == Len(logs) <= 50

(* The buffer is full and a later tick has evicted from it *)
C1_Witness == Len(logs) = 50 /\ Len(generated) > 50

(* C2: eviction is first-in first-out and keeps the order: after n feed
   ticks the buffer is exactly the last min(n, 50) Logs generated, in the
   order of their generation. *)
C2_LastFiftyInOrder ==
    LET n == Len(generated)
        k == IF n < 50 THEN n ELSE 50
    IN  /\ Len(logs) = k
        /\ \A i \in 1..k : logs[i] = generated[n - k + i]

(* After 51 ticks the first Log generated is gone and the 2nd to 51st are
   the buffer *)
C2_Witness ==
    /\ Len(generated) = 51
    /\ logs[1] = generated[2]
    /\ logs[50] = generated[51]
    /\ \A i \in 1..50 : logs[i] # generated[1]

Range(seq) == {seq[i] : i \in 1..Len(seq)}

(* C3: in every state a render observes, the first render and the render
   that follows a scenario selection included, stats, alerts and
   recommendations are the table's values for the active scenario. *)
C3_RenderShowsActiveScenario ==
    mounted =>
        /\ stats = SCENARIO_CONFIG(activeScenario)
        /\ alerts = ScenarioAlerts(activeScenario)
        /\ recommendations = ScenarioRecommendations(activeScenario)

(* C4: once the scenario's effect has run, Normal shows 0 alerts and 1
   recommendation, Pollution 1 critical alert and 2 recommendations,
   Festival 1 warning alert and 1 recommendation, Outbreak 1 critical alert
   and 2 recommendations. *)
C4_ScenarioTable ==
    ~EffectsPending =>
        /\ activeScenario = "Normal" =>
             Len(alerts) = 0 /\ Len(recommendations) = 1
        /\ activeScenario = "Pollution" =>
             /\ Len(alerts) = 1 /\ alerts[1].type = "critical"
             /\ Len(recommendations) = 2
        /\ activeScenario = "Festival" =>
             /\ Len(alerts) = 1 /\ alerts[1].type = "warning"
             /\ Len(recommendations) = 1
        /\ activeScenario = "Outbreak" =>
             /\ Len(alerts) = 1 /\ alerts[1].type = "critical"
             /\ Len(recommendations) = 2

(* The Festival scenario with its effect run *)
C4_Witness ==
    /\ ~EffectsPending
    /\ activeScenario = "Festival"
    /\ Len(alerts) = 1
    /\ alerts[1].type = "warning"

(* C5: when the effect of a transition from scenario A to scenario B runs,
   alerts and recommendations become exactly B's table entries, every one
   pending, with no entry of the sets shown for A among them; from Normal to
   Outbreak that is one critical Bio-Hazard alert and two recommendations. *)
C5_TransitionReplaces ==
    [][ (scenarioDeps.ran /\ scenarioDeps'.scenario # scenarioDeps.scenario) =>
          /\ alerts' = ScenarioAlerts(activeScenario')
          /\ recommendations' = ScenarioRecommendations(activeScenario')
          /\ Range(alerts') \cap Range(alerts) = {}
          /\ Range(recommendations') \cap Range(recommendations) = {}
          /\ \A r \in Range(recommendations') : RecommendationStatus(r) = "pending"
          /\ (scenarioDeps.scenario = "Normal" /\ activeScenario' = "Outbreak") =>
                /\ Len(alerts') = 1
                /\ alerts'[1].type = "critical"
                /\ alerts'[1].title = "Bio-Hazard Detected"
                /\ Len(recommendations') = 2
      ]_vars

(* Outbreak selected from Normal, and its effect run *)
C5_Witness ==
    /\ ~EffectsPending
    /\ activeScenario = "Outbreak"
    /\ Len(produced["Normal"]) = 1
    /\ Len(produced["Outbreak"]) = 1
    /\ produced["Pollution"] = << >>
    /\ produced["Festival"] = << >>
    /\ Len(recommendations) = 2
    /\ Len(alerts) = 1

(* C6: every run of a scenario's effect sets the same alerts and
   recommendations for that scenario, whatever was active before, however
   many feed ticks occurred, and whether or not the feed was paused. *)
C6_SameOutputEveryTime ==
    \A s \in Scenarios :
        \A i, j \in 1..Len(produced[s]) : produced[s][i] = produced[s][j]

(* Normal active for the second time, after another scenario, a feed tick
   and with the feed's effect re-run *)
C6_Witness ==
    /\ Len(produced["Normal"]) = 2
    /\ \E s \in Scenarios \ {"Normal"} : Len(produced[s]) = 1
    /\ Len(generated) > 0

(* C7: the active scenario starts as Normal, is always one of the four
   scenarios, changes only in a step that is the click of a scenario button,
   and every scenario button is enabled whenever the operator can click on
   the overview, whatever scenario is active. *)
C7_ScenarioMachine ==
    /\ activeScenario = "Normal"
    /\ [](activeScenario \in Scenarios)
    /\ [][activeScenario' # activeScenario =>
            \E s \in Scenarios : SelectScenario(s)]_vars
    /\ []((CanClick /\ activeTab = "overview") =>
            \A s \in Scenarios : ENABLED SelectScenario(s))

(* Festival entered from Outbreak, neither of them the initial scenario *)
C7_Witness ==
    /\ activeScenario = "Festival"
    /\ Len(produced["Outbreak"]) = 1
    /\ produced["Pollution"] = << >>
    /\ Len(produced["Normal"]) = 1

(* The Logs generated since the feed's interval was last set, by position *)
SinceArmed == {i \in 1..Len(generated) : generated[i].id > feedArmedAt}

(* The times at which that interval has come due so far *)
TickSlots == {t \in (feedArmedAt + 1)..now : (t - feedArmedAt) % 2 = 0}

(* C8: while the feed is paused no step changes logs, however much time
   passes; while it runs, the Logs generated since its interval was last
   set (on resume in particular) are one per elapsed 2-unit interval
   counted from that moment, none for a tick missed during the pause. *)
C8_PauseAndResume ==
    /\ [][isFeedPaused => logs' = logs]_vars
    /\ []((mounted /\ ~isFeedPaused /\ ~EffectsPending) =>
            /\ {generated[i].id : i \in SinceArmed} \subseteq TickSlots
            /\ TickSlots \ {now} \subseteq {generated[i].id : i \in SinceArmed}
            /\ \A i, j \in SinceArmed : generated[i].id = generated[j].id => i = j)

(* The feed paused between two ticks, a due time passed while it was
   paused, then resumed: the next Log comes 2 units after the resume and 4
   after the Log before it *)
C8_Witness ==
    /\ ~isFeedPaused /\ ~EffectsPending
    /\ \A s \in Scenarios \ {"Normal"} : produced[s] = << >>
    /\ Len(generated) > 1
    /\ LET n == Len(generated)
       IN  /\ generated[n].id = feedArmedAt + 2
           /\ generated[n].id = generated[n - 1].id + 4
           /\ logs[Len(logs)] = generated[n]

(* C9: logs changes only in a step that is a feed tick; pause, resume,
   scenario selection, tab, theme and voice clicks, the clock's tick, the
   effects and the passage of time leave it as it is. *)
C9_OnlyFeedTickWritesLogs ==
    [][logs' # logs =>
         \E i \in 0..3, j \in Jitters, d \in BOOLEAN : FeedTick(i, j, d)]_vars

(* Logs of the Normal scenario still in the buffer after Outbreak was
   selected and the feed paused *)
C9_Witness ==
    /\ ~EffectsPending
    /\ isFeedPaused
    /\ activeScenario = "Outbreak"
    /\ Len(logs) > 0
    /\ logs = generated
    /\ Len(produced["Normal"]) = 1

(* C10: once the feed is paused or the component unmounted, no feed tick
   runs and no Log is generated; an unmounted component has no interval
   left, neither the feed's nor the clock's. *)
C10_Cancellation ==
    /\ [][(isFeedPaused \/ ~mounted) => generated' = generated]_vars
    /\ [](~mounted => timers = {})

(* Unmounted after a tick, and the next tick's time has come and gone *)
C10_Witness ==
    /\ ~mounted
    /\ Len(generated) > 0
    /\ now >= generated[Len(generated)].id + 2
    /\ ~isFeedPaused

(* The Log a feed tick has just built *)
LastGenerated == generated[Len(generated)]

(* C11: every Log generated while the active scenario is Normal has
   isImportant = false, whichever agent was drawn. *)
C11_NormalNeverImportant ==
    [][(generated' # generated /\ activeScenario = "Normal") =>
          LastGenerated'.isImportant = FALSE]_vars

(* Two Logs of different agents generated with Normal the only scenario
   there has been *)
C11_Witness ==
    /\ \A s \in Scenarios \ {"Normal"} : produced[s] = << >>
    /\ Len(generated) = 2
    /\ generated[1].agent # generated[2].agent
    /\ ~generated[1].isImportant /\ ~generated[2].isImportant

(* C12: a Log generated under a non-Normal scenario by Sentinel, Logistics
   or Action is important and carries that agent's critical text (ward
   anomaly, oxygen pressure, reallocation order), whatever the importance
   draw; a Log with the other importance can only be Orchestrator's. *)
C12_ForcedImportance ==
    [][(generated' # generated /\ activeScenario # "Normal") =>
          LET l == LastGenerated' IN
          /\ l.agent = "Sentinel" =>
               /\ l.isImportant
               /\ l.message.text =
                    "CRITICAL: Detected rapid spike in respiratory cases in Ward B."
          /\ l.agent = "Logistics" =>
               /\ l.isImportant
               /\ l.message.text = "WARNING: Oxygen pressure dropping in ICU 2."
          /\ l.agent = "Action" =>
               /\ l.isImportant
               /\ l.message.text =
                    "Drafting emergency staff reallocation order #9921."
          /\ ~l.isImportant => l.agent = "Orchestrator"]_vars

(* Under Outbreak from the start of the feed: an Orchestrator Log that is
   important, an Orchestrator Log that is not *)
C12_Witness ==
    /\ activeScenario = "Outbreak"
    /\ Len(generated) = 2
    /\ feedArmedAt < generated[1].id
    /\ generated[1].agent = "Orchestrator" /\ generated[1].isImportant
    /\ generated[2].agent = "Orchestrator" /\ ~generated[2].isImportant

(* C13: a feed tick appends exactly one Log, of one of the four agents,
   whose message and importance are those the tick body gives for the
   scenario active at the tick, and for its stats: no Log generated after a
   scenario change is built from the scenario active before it. *)
C13_TickUsesActiveScenario ==
    [][generated' # generated =>
          /\ Len(generated') = Len(generated) + 1
          /\ logs' = AppendLog(logs, LastGenerated')
          /\ LastGenerated'.agent \in Range(agents)
          /\ \E i \in 0..3, j \in 0..9, d \in BOOLEAN :
                LastGenerated' = NewLog(activeScenario,
                                        SCENARIO_CONFIG(activeScenario),
                                        i, j, d, now)]_vars

(* A Log of Normal, then Pollution selected, then a Log of Pollution *)
C13_Witness ==
    /\ activeScenario = "Pollution"
    /\ Len(generated) = 2
    /\ generated[1].message.text = "Bed capacity check: ${} beds available."
    /\ generated[1].message.num = 85
    /\ generated[1].id <= feedArmedAt
    /\ generated[2].message.text = "WARNING: Oxygen pressure dropping in ICU 2."
    /\ logs = generated

----------------------------------------------------------------------------
(* The realtime channel: its operations *)

(* connect(): opens the connection; connecting twice without disconnecting
   is a no-op *)
Connect ==
    /\ lifecycle.connections < MaxConnections
    /\ connected' = TRUE
    /\ lifecycle' = IF connected THEN lifecycle
                    ELSE [lifecycle EXCEPT !.connections = @ + 1,
                                           !.last = "connect"]
    /\ UNCHANGED <<subscribers, delivered, outbox, sendResults>>
    /\ UNCHANGED <<dashVars, apiVars>>

(* disconnect() *)
Disconnect ==
    /\ connected' = FALSE
    /\ lifecycle' = IF connected THEN [lifecycle EXCEPT !.last = "disconnect"]
                    ELSE lifecycle
    /\ UNCHANGED <<subscribers, delivered, outbox, sendResults>>
    /\ UNCHANGED <<dashVars, apiVars>>

(* The network drops the connection *)
ConnectionDrop ==
    /\ connected
    /\ connected' = FALSE
    /\ lifecycle' = [lifecycle EXCEPT !.last = "drop"]
    /\ UNCHANGED <<subscribers, delivered, outbox, sendResults>>
    /\ UNCHANGED <<dashVars, apiVars>>

(* subscribe(handler) *)
Subscribe(h) ==
    /\ h \notin subscribers
    /\ subscribers' = subscribers \cup {h}
    /\ UNCHANGED <<connected, delivered, outbox, sendResults, lifecycle>>
    /\ UNCHANGED <<dashVars, apiVars>>

(* The unsubscribe function subscribe returned *)
Unsubscribe(h) ==
    /\ h \in subscribers
    /\ subscribers' = subscribers \ {h}
    /\ UNCHANGED <<connected, delivered, outbox, sendResults, lifecycle>>
    /\ UNCHANGED <<dashVars, apiVars>>

(* An inbound message arrives and is given to every subscriber *)
Receive(frame) ==
    /\ connected
    /\ lifecycle.inbound < MaxInbound
    /\ lifecycle' = [lifecycle EXCEPT !.inbound = @ + 1]
    /\ delivered' = [h \in Handlers |->
                        IF h \in subscribers THEN Append(delivered[h], frame)
                        ELSE delivered[h]]
    /\ UNCHANGED <<connected, subscribers, outbox, sendResults>>
    /\ UNCHANGED <<dashVars, apiVars>>

SendResult(outcome, frame) ==
    [outcome |-> outcome, frame |-> frame, after |-> lifecycle.last]

(* send(message) that returns normally while disconnected, the message
   forwarded nowhere *)
Send_SilentDrop(frame) ==
    /\ Len(sendResults) < MaxSends
    /\ sendResults' = Append(sendResults, SendResult("sent", frame))
    /\ outbox' = IF connected THEN Append(outbox, frame) ELSE outbox
    /\ UNCHANGED <<connected, subscribers, delivered, lifecycle>>
    /\ UNCHANGED <<dashVars, apiVars>>

(* send(message): forwards the message, or fails with ChannelClosed while
   disconnected *)
Send(frame) ==
    /\ Len(sendResults) < MaxSends
    /\ IF connected
       THEN /\ outbox' = Append(outbox, frame)
            /\ sendResults' = Append(sendResults, SendResult("sent", frame))
       ELSE /\ outbox' = outbox
            /\ sendResults' =
                  Append(sendResults, SendResult("ChannelClosed", frame))
    /\ UNCHANGED <<connected, subscribers, delivered, lifecycle>>
    /\ UNCHANGED <<dashVars, apiVars>>

ChannelNext ==
    \/ Connect
    \/ Disconnect
    \/ ConnectionDrop
    \/ \E h \in Handlers : Subscribe(h)
    \/ \E h \in Handlers : Unsubscribe(h)
    \/ \E frame \in Frames : Receive(frame)
    \/ \E frame \in Frames : Send(frame)

ChannelSpec == Init /\ [][ChannelNext]_vars

----------------------------------------------------------------------------
(* Properties of the client and of the channel *)

(* The call in progress is approveRecommendation or rejectRecommendation *)
IsCommand(call) == call.op \in {"approveRecommendation", "rejectRecommendation"}

(* The id names one of the Recommendations the dashboard holds *)
IsCurrent(recId) == \E i \in DOMAIN recommendations : recommendations[i].id = recId

(* C15: rejectRecommendation(id, '') hands nothing to fetch and its promise
   rejects with a ValidationError. *)
C15_EmptyReasonNeverSent ==
    [][(/\ apiCalls' # apiCalls
        /\ apiCall'.op = "rejectRecommendation"
        /\ apiCall'.reason = "") =>
          /\ fetchLog' = fetchLog
          /\ apiPc' = "settled"
          /\ apiResult' = Settled("rejected", "", "ValidationError")]_vars

(* C16: approveRecommendation(id) for an id that names no current
   Recommendation, which the server answers with 404, rejects with NotFound,
   and no step of the call changes the recommendations, alerts, logs or
   scenario. *)
C16_UnknownIdNotFound ==
    [][(apiVars' # apiVars /\ apiCall'.op = "approveRecommendation"
        /\ ~IsCurrent(apiCall'.recId)) =>
          /\ UNCHANGED <<recommendations, alerts, logs, activeScenario>>
          /\ (apiPc' = "settled" /\ apiResponse'.status = 404) =>
                apiResult' = Settled("rejected", "", "NotFound")]_vars

(* C17: when the command behind approveRecommendation or
   rejectRecommendation has failed (fetch rejected, or the Response is not
   ok), the promise is rejected, not fulfilled, and every Recommendation the
   dashboard holds is still pending. *)
C17_FailedCommandIsAnError ==
    (/\ apiPc = "settled"
     /\ IsCommand(apiCall)
     /\ (apiResponse = NoResponse \/ ~apiResponse.ok)) =>
        /\ apiResult.state = "rejected"
        /\ \A i \in DOMAIN recommendations :
              RecommendationStatus(recommendations[i]) = "pending"

(* C18: a settled call of any function is in one of three cases: fulfilled
   with the parsed payload of a 2xx Response; rejected, no Response having
   arrived; rejected, the Response being non-2xx.  (A body that does not
   parse rejects on either side and is left aside.)  No non-2xx Response is
   returned as a value. *)
C18_ThreeOutcomes ==
    apiPc = "settled" =>
        \/ apiResponse.ok /\ apiResult = Settled("fulfilled", "payload", "")
        \/ apiResponse = NoResponse /\ apiResult.state = "rejected"
        \/ /\ apiResponse # NoResponse
           /\ ~apiResponse.ok
           /\ apiResult.state = "rejected"
        \/ apiResponse.body = "notJson" /\ apiResult.state = "rejected"

(* C19: whenever fetchCurrentAQI is waiting for the location, it goes on to
   issue its request: with the coordinates if the lookup succeeds, without
   them if it is denied, fails, times out or is never answered. *)
C19_AQIRequestAlwaysIssued ==
    /\ [](apiPc = "locating" => <>(apiPc # "locating"))
    /\ [][apiPc = "locating" /\ apiPc' # "locating" =>
            /\ apiPc' = "fetching"
            /\ fetchLog' = Append(fetchLog, fetchCurrentAQI(NoLocation))
               \/ \E position \in Positions :
                     fetchLog' = Append(fetchLog, fetchCurrentAQI(position))]_vars

(* C20: a send() made while the channel is disconnected, as it is after
   disconnect(), ends with ChannelClosed and forwards nothing; a send() made
   while it is connected, as it is after a later connect(), succeeds and
   forwards the message. *)
C20_SendAfterDisconnectAndReconnect ==
    /\ [](lifecycle.last = "disconnect" => ~connected)
    /\ [](lifecycle.last = "connect" => connected)
    /\ [][Len(sendResults') > Len(sendResults) =>
            LET r == sendResults'[Len(sendResults')] IN
            IF connected
            THEN r.outcome = "sent" /\ outbox' = Append(outbox, r.frame)
            ELSE r.outcome = "ChannelClosed" /\ outbox' = outbox]_vars

(* connect, disconnect, a send that fails, connect, a send that succeeds *)
C20_Witness ==
    /\ Len(sendResults) = 2
    /\ sendResults[1].outcome = "ChannelClosed"
    /\ sendResults[1].after = "disconnect"
    /\ sendResults[2].outcome = "sent"
    /\ sendResults[2].after = "connect"
    /\ lifecycle.connections = 2
    /\ outbox = << sendResults[2].frame >>

(* The feed intervals scheduled in the browser, and when they next fire *)
FeedTimers == {t \in timers : t.kind = "feed"}

FeedDue == {t.due : t \in FeedTimers}

(* C21: a step that is not a feed tick and that finds and leaves the feed
   scheduled, as the flush after a scenario selection does, leaves the time
   of the next feed tick as it was. *)
C21_TransitionKeepsCadence ==
    [][(generated' = generated /\ FeedTimers # {} /\ FeedTimers' # {}) =>
          FeedDue' = FeedDue]_vars

(* C22: the ids of the Logs are strictly increasing in generation order,
   in the history of all Logs generated and so in the buffer, through
   pauses, resumptions and scenario changes. *)
C22_IdsIncrease ==
    /\ \A i, j \in 1..Len(generated) :
          i < j => generated[i].id < generated[j].id
    /\ \A i, j \in 1..Len(logs) : i < j => logs[i].id < logs[j].id

(* Two Logs with the interval set anew between them *)
C22_Witness ==
    /\ Len(generated) = 2
    /\ Len(logs) = 2
    /\ generated[1].id <= feedArmedAt
    /\ feedArmedAt < generated[2].id
    /\ clicks > 0

(* The recommendations and the alerts are those of one scenario, or those of
   the first render *)
OfOneScenario(recs, als) ==
    \/ recs = << >> /\ als = << >>
    \/ \E s \in Scenarios :
          recs = ScenarioRecommendations(s) /\ als = ScenarioAlerts(s)

(* C23: every render holds the recommendations and the alerts of one and the
   same scenario, never the recommendations of one beside the alerts of
   another; a step that replaces either sets both to the active scenario's;
   and the log buffer of a render is the buffer of the render before or
   that buffer with one whole Log appended by AppendLog. *)
C23_AtomicReplacement ==
    /\ [] OfOneScenario(recommendations, alerts)
    /\ [][(recommendations' # recommendations \/ alerts' # alerts) =>
            /\ recommendations' = ScenarioRecommendations(activeScenario)
            /\ alerts' = ScenarioAlerts(activeScenario)]_vars
    /\ [][logs' # logs =>
            /\ generated' # generated
            /\ logs' = AppendLog(logs, LastGenerated')]_vars

(* Outbreak's two recommendations and critical alert have replaced
   Pollution's, and a Log has been appended since *)
C23_Witness ==
    /\ activeScenario = "Outbreak"
    /\ Len(produced["Pollution"]) = 1
    /\ recommendations = ScenarioRecommendations("Outbreak")
    /\ alerts = ScenarioAlerts("Outbreak")
    /\ Len(logs) = 1

(* C24: every call hands fetch exactly one request, in the step that makes
   the call or, for fetchCurrentAQI, in the step that ends the location
   lookup; a request that fails is sent no second time, and its failure
   settles the call as a rejection. *)
C24_OneRequestPerCall ==
    /\ [](Len(fetchLog) = IF apiPc = "locating" THEN apiCalls - 1 ELSE apiCalls)
    /\ [][apiPc = "fetching" /\ apiPc' # "fetching" =>
            /\ fetchLog' = fetchLog
            /\ apiResponse' = NoResponse =>
                  apiPc' = "settled" /\ apiResult'.state = "rejected"]_vars

(* A call whose one request failed in transport and which has settled *)
C24_Witness ==
    /\ apiPc = "settled"
    /\ apiCalls = 1
    /\ apiCall.op = "approveRecommendation"
    /\ apiResponse = NoResponse
    /\ apiResult = Settled("rejected", "", "TypeError")
    /\ fetchLog = << approveRecommendation(apiCall.recId) >>

(* C25: there is never more than one feed interval, the one there is is the
   one the effect's cleanup will clear, and once the effects of a commit
   are flushed (before any timer callback or click is served) a feed
   interval is scheduled exactly when the dashboard is mounted and the feed
   is not paused. *)
C25_OneFeedTimer ==
    /\ Cardinality(FeedTimers) <= 1
    /\ \A t \in FeedTimers : t.id = feedCleanup
    /\ ~EffectsPending => (FeedTimers # {} <=> (mounted /\ ~isFeedPaused))

(* The feed paused and resumed under Normal: the interval the pause
   cleared is gone, the one the resumption set is the only one *)
C25_Witness ==
    /\ mounted
    /\ clicks = 2
    /\ \A s \in Scenarios \ {"Normal"} : produced[s] = << >>
    /\ ~isFeedPaused
    /\ ~EffectsPending
    /\ feedArmedAt > 0
    /\ Cardinality(FeedTimers) = 1

(* C26: a step that changes neither the scenario nor the pause flag from
   those the Log Simulator effect last ran with (a clock update, a tab or
   theme switch, a voice toggle, the flush of any of them) leaves the feed
   interval as it is, and a feed tick leaves it due one period later; so
   every Log since the interval was set is generated a whole number of
   periods after that. *)
C26_RendersKeepFeedTimer ==
    /\ [][(/\ mounted'
           /\ feedDeps.ran
           /\ feedDeps.scenario = activeScenario
           /\ feedDeps.paused = isFeedPaused
           /\ activeScenario' = activeScenario
           /\ isFeedPaused' = isFeedPaused) =>
             IF generated' = generated
             THEN FeedTimers' = FeedTimers
             ELSE /\ FeedDue' = {due + FeedPeriod : due \in FeedDue}
                  /\ TimerIds(FeedTimers') = TimerIds(FeedTimers)]_vars
    /\ [](\A i \in SinceArmed :
             (generated[i].id - feedArmedAt) % FeedPeriod = 0)

(* The clock has ticked, the operator has gone to the settings tab and
   switched the voice on, and the feed set at time 0 has fired at time 2 *)
C26_Witness ==
    /\ feedArmedAt = 0
    /\ currentTime >= 1
    /\ activeTab = "settings"
    /\ isVoiceActive
    /\ Len(generated) = 1
    /\ generated[1].id = FeedPeriod
    /\ logs = generated

====
